---- MODULE Spec2Model ----
(***************************************************************************)
(* Model of at45.c: a command-line utility that identifies an AT45 SPI     *)
(* DataFlash by its JEDEC ID, optionally rewrites the page-size mode and   *)
(* optionally reads and decodes the 16-bit status register.                *)
(*                                                                         *)
(* One run of main() is modelled.  The command line, the result of open()  *)
(* and the result and received bytes of every ioctl() are the inputs.      *)
(* Every system call is appended to `sys`, every printf to `out` and every *)
(* perror to `err`, so that ordering properties are state predicates.      *)
(*                                                                         *)
(* 32-bit quantities are kept as a pair of 16-bit halfwords [hi, lo]; the  *)
(* conversions uint32_t -> int (line 180) and int -> uint32_t (lines 184   *)
(* and 191) preserve the bit pattern, which is what the pair records.      *)
(* Multi-byte loads through the casts on lines 101 and 111 are modelled    *)
(* for a little-endian host.                                               *)
(***************************************************************************)
EXTENDS Integers, Sequences, FiniteSets, TLC

VARIABLES
    argv,         \* the options of the command line, in getopt's scan order
    optind,       \* index of the next option getopt_long will return
    pc,           \* position of main()
    devname,      \* char *devname
    pagesize,     \* int pagesize
    show_status,  \* bool show_status (uninitialised until -s is seen)
    ret,          \* int ret
    id,           \* int id, as a 32-bit pattern
    i,            \* int i
    status,       \* int status
    sys,          \* system calls made so far: open, ioctl, usleep
    out,          \* lines printed to stdout
    err           \* perror calls (stderr)

vars == <<argv, optind, pc, devname, pagesize, show_status, ret, id, i,
          status, sys, out, err>>

-----------------------------------------------------------------------------
(* Bounds *)

\* Largest number of options on the command line.
MaxArgs == 2

-----------------------------------------------------------------------------
(* Program constants *)

JEDEC_ID_CMD == 159        \* 0x9F
AT45_STATUS_CMD == 215     \* 0xD7
AT45_PAGE_256 == 166       \* 0xA6
AT45_PAGE_264 == 167       \* 0xA7
AT45_SET_PAGE_SZ == <<61, 42, 128>>   \* 0x3D, 0x2A, 0x80
SPI_CMD_DELAY == 100000
EXIT_SUCCESS == 0
EXIT_FAILURE == 1

\* "/dev/spidev0.0" as character codes
DEFAULT_SPIDEV == <<47, 100, 101, 118, 47, 115, 112, 105, 100, 101, 118, 48, 46, 48>>

NULL == "NULL"

U32(hi, lo) == [hi |-> hi, lo |-> lo]
UINT32_MAX == U32(65535, 65535)

\* chips[], indexed from 1 here and from 0 in C
chips == <<
    [jedec_id |-> U32(256, 9247), name |-> "Adesto AT45DB041E"],  \* 0x0100241F
    [jedec_id |-> U32(0, 0),      name |-> NULL] >>

\* status_bits[], indexed from 1 here and from 0 in C; descr[1] is the C
\* descr[0] (bit clear) and descr[2] the C descr[1] (bit set)
status_bits == <<
    <<"Device is configured for standard DataFlash page size (264 bytes)",
      "Device is configured for 'power of 2' binary page size (256 bytes)">>,
    <<"Sector protection is disabled", "Sector protection is enabled">>,
    <<"Unknown density", "4-Mbit">>,
    <<"Unknown density", "4-Mbit">>,
    <<"Unknown density", "4-Mbit">>,
    <<"4-Mbit", "Unknown density">>,
    <<"Main memory page data matches buffer data",
      "Main memory page data does not match buffer data">>,
    <<"Device is busy with an internal operation", "Device is ready">>,
    <<"No sectors are erase suspended", "A sector is erase suspended">>,
    <<"No program operation has been suspended while using Buffer 1",
      "A sector is program suspended while using Buffer 1">>,
    <<"No program operation has been suspended while using Buffer 2",
      "A sector is program suspended while using Buffer 2">>,
    <<"Sector Lockdown command is disabled", "Sector Lockdown command is enabled">>,
    <<"Reserved", "Reserved">>,
    <<"Erase or program operation was successful", "Erase or program error detected">>,
    <<"Reserved", "Reserved">>,
    <<"Device is busy with an internal operation", "Device is ready">> >>

-----------------------------------------------------------------------------
(* Pure helpers *)

\* The k-th char of a NUL-terminated C string held as a sequence of codes.
CharAt(s, k) == IF k <= Len(s) THEN s[k] ELSE 0

RECURSIVE StrcmpFrom(_, _, _)
StrcmpFrom(a, b, k) ==
    IF CharAt(a, k) # CharAt(b, k) THEN CharAt(a, k) - CharAt(b, k)
    ELSE IF CharAt(a, k) = 0 THEN 0
    ELSE StrcmpFrom(a, b, k + 1)

strcmp(a, b) == StrcmpFrom(a, b, 1)

\* "256" as character codes
Str256 == <<50, 53, 54>>

\* A variant of PageSizeOpt that compares with strncmp(optarg, "256", 3)
PageSizeOpt_Prefix(optarg) ==
    IF strcmp(SubSeq(optarg, 1, IF Len(optarg) < 3 THEN Len(optarg) ELSE 3), Str256) = 0
    THEN AT45_PAGE_256 ELSE AT45_PAGE_264

\* case 'p' of the option switch: the mode byte chosen for an argument
PageSizeOpt(optarg) ==
    IF strcmp(optarg, Str256) = 0 THEN AT45_PAGE_256 ELSE AT45_PAGE_264

\* A variant of Load32 that takes the first byte as the most significant
Load32_BigEndian(buf, off) ==
    U32(buf[off + 1] * 256 + buf[off + 2], buf[off + 3] * 256 + buf[off + 4])

\* *(uint32_t *)(buf + off) on a little-endian host; buf is indexed from 1
\* here, so C byte off is buf[off + 1]
Load32(buf, off) ==
    U32(buf[off + 4] * 256 + buf[off + 3], buf[off + 2] * 256 + buf[off + 1])

\* *(uint16_t *)(buf + off) on a little-endian host
Load16(buf, off) == buf[off + 2] * 256 + buf[off + 1]

\* A variant of BitValue without the mask: bool value = status >> i
BitValue_NoMask(st, n) == IF st \div (2 ^ n) # 0 THEN 1 ELSE 0

\* bool value = (status >> i) & 1
BitValue(st, n) == (st \div (2 ^ n)) % 2

\* A zero-initialised buffer of n bytes with the leading bytes given.
Buf(head, n) == [k \in 1..n |-> IF k <= Len(head) THEN head[k] ELSE 0]

-----------------------------------------------------------------------------
(* Inputs *)

\* "/dev/spidev1.0" as character codes: the device named by a -d option
OtherSpidev == <<47, 100, 101, 118, 47, 115, 112, 105, 100, 101, 118, 49, 46, 48>>

\* Arguments tried for -p: "256", "264", "25" and "2560"
PageArgs == { <<50, 53, 54>>, <<50, 54, 52>>, <<50, 53>>, <<50, 53, 54, 48>> }

\* What getopt_long can meet on the command line.  "d", "p", "s" and "h"
\* stand for the short option or its exact long name.  "?" is an unknown
\* short option or an option whose argument is missing.  "long?" is a long
\* option that is not the exact name of an entry of options[].
Opts ==
    { [opt |-> "d", optarg |-> OtherSpidev] }
    \cup { [opt |-> "p", optarg |-> a] : a \in PageArgs }
    \cup { [opt |-> o, optarg |-> << >>] : o \in {"s", "h", "?", "long?"} }

CommandLines == UNION { [1..n -> Opts] : n \in 0..MaxArgs }

\* Bytes 1..4 of the buffers the JEDEC-ID transfer can receive
IdBytes == { <<31, 36, 0, 1>>, <<1, 0, 36, 31>>, <<0, 0, 0, 0>>,
             <<255, 255, 255, 255>>, <<31, 36, 0, 0>> }

\* recv_data[6] after the JEDEC-ID transfer
RxJedec == { <<d>> \o b \o <<t>> : d \in {0, 255}, b \in IdBytes, t \in {0, 255} }

\* recv_data[3] after the status transfer
RxStatus == { <<d, lo, hi>> : d \in {0, 255}, lo \in {0, 172}, hi \in {1, 255} }

\* Has option o been given on the command line?
Given(o) == \E k \in 1..Len(argv) : argv[k].opt = o

-----------------------------------------------------------------------------
(* The transfer functions *)

\* send_data of get_jedec_id
JedecTx == Buf(<<JEDEC_ID_CMD>>, 6)

\* send_data of at45_get_status
StatusTx == Buf(<<AT45_STATUS_CMD>>, 3)

\* send_data of at45_set_page_sz at the time of the transfer; the parameter
\* is a uint8_t
SetPageSzTx(page_sz) == AT45_SET_PAGE_SZ \o <<page_sz % 256>>

\* DO_XFER's test of the ioctl result: TRUE when the function returns early
XferFailed(ok) == ~ok

\* Return value of get_jedec_id
get_jedec_id(ok, rx) == IF XferFailed(ok) THEN UINT32_MAX ELSE Load32(rx, 1)

\* Return value of at45_get_status
at45_get_status(ok, rx) == IF XferFailed(ok) THEN -1 ELSE Load16(rx, 1)

\* A variant of at45_set_page_sz that reports success after a failed transfer
at45_set_page_sz_NoError(ok) == FALSE

\* Return value of at45_set_page_sz: true means failure
at45_set_page_sz(ok) == IF XferFailed(ok) THEN TRUE ELSE FALSE

Ioctl(tx, rx, ok) == <<"ioctl", tx, Len(tx), rx, ok>>

\* The usage text printed by the default branch of the option switch
UsageLines == << <<"Usage: %s [<options>]">>, <<"\tOptions:">>,
                 <<"\t\t--spidev, -d <device>  - Use <device>, default is %s">>,
                 <<"\t\t--help, -h             - Show this help">> >>

-----------------------------------------------------------------------------
(* main() *)

\* A variant of PagesizeInit that selects the 264-byte mode by default
PagesizeInit_264 == AT45_PAGE_264

\* Initial value of pagesize
PagesizeInit == 0

\* Initial value of ret
RetInit == EXIT_FAILURE

\* The state on entry of the option loop.  show_status has no initialiser:
\* its value is indeterminate.  id, i and status are written before they are
\* read; they start at a placeholder.
Init ==
    /\ argv \in CommandLines
    /\ optind = 1
    /\ pc = "getopt"
    /\ devname = DEFAULT_SPIDEV
    /\ pagesize = PagesizeInit
    /\ show_status \in BOOLEAN
    /\ ret = RetInit
    /\ id = U32(0, 0)
    /\ i = 0
    /\ status = 0
    /\ sys = << >>
    /\ out = << >>
    /\ err = << >>

\* getopt_long returns -1: the loop ends and the device name is printed
GetoptEnd ==
    /\ pc = "getopt"
    /\ optind > Len(argv)
    /\ out' = Append(out, <<"Using device", devname>>)
    /\ pc' = "open"
    /\ UNCHANGED <<argv, optind, devname, pagesize, show_status, ret, id, i,
                   status, sys, err>>

\* case 'd'
OptD ==
    /\ pc = "getopt"
    /\ optind <= Len(argv)
    /\ argv[optind].opt = "d"
    /\ devname' = argv[optind].optarg
    /\ optind' = optind + 1
    /\ UNCHANGED <<argv, pc, pagesize, show_status, ret, id, i, status, sys,
                   out, err>>

\* case 'p'
OptP ==
    /\ pc = "getopt"
    /\ optind <= Len(argv)
    /\ argv[optind].opt = "p"
    /\ pagesize' = PageSizeOpt(argv[optind].optarg)
    /\ optind' = optind + 1
    /\ UNCHANGED <<argv, pc, devname, show_status, ret, id, i, status, sys,
                   out, err>>

\* case 's'
OptS ==
    /\ pc = "getopt"
    /\ optind <= Len(argv)
    /\ argv[optind].opt = "s"
    /\ show_status' = TRUE
    /\ optind' = optind + 1
    /\ UNCHANGED <<argv, pc, devname, pagesize, ret, id, i, status, sys, out,
                   err>>

\* case 'h': ret = EXIT_SUCCESS, then falls through to the usage text
OptH ==
    /\ pc = "getopt"
    /\ optind <= Len(argv)
    /\ argv[optind].opt = "h"
    /\ ret' = EXIT_SUCCESS
    /\ out' = out \o UsageLines
    /\ optind' = optind + 1
    /\ pc' = "done"
    /\ UNCHANGED <<argv, devname, pagesize, show_status, id, i, status, sys,
                   err>>

\* default: getopt_long returned '?'
OptDefault ==
    /\ pc = "getopt"
    /\ optind <= Len(argv)
    /\ argv[optind].opt \in {"?", "long?"}
    /\ out' = out \o UsageLines
    /\ optind' = optind + 1
    /\ pc' = "done"
    /\ UNCHANGED <<argv, devname, pagesize, show_status, ret, id, i, status,
                   sys, err>>

\* options[] has no all-zero last element.  For a long option that is not
\* the exact name of an entry, getopt_long scans past the end of the array
\* (undefined behaviour): it either meets a null name there and returns '?'
\* (OptDefault), or dereferences a stray name pointer and the process is
\* killed.
OptTableOverrun ==
    /\ pc = "getopt"
    /\ optind <= Len(argv)
    /\ argv[optind].opt = "long?"
    /\ optind' = optind + 1
    /\ pc' = "killed"
    /\ UNCHANGED <<argv, devname, pagesize, show_status, ret, id, i, status,
                   sys, out, err>>

\* fd = open(devname, O_RDWR)
Open ==
    /\ pc = "open"
    /\ \E ok \in BOOLEAN :
        /\ sys' = Append(sys, <<"open", devname, ok>>)
        /\ IF ok
           THEN /\ pc' = "get_jedec_id"
                /\ err' = err
           ELSE /\ pc' = "done"
                /\ err' = Append(err, "open")
    /\ UNCHANGED <<argv, optind, devname, pagesize, show_status, ret, id, i,
                   status, out>>

\* id = get_jedec_id(fd), with the received buffer drawn from rxs (a failed
\* transfer leaves the zero-initialised buffer, which is not read); then the
\* initialisation of the lookup loop
GetJedecIdFrom(rxs) ==
    /\ pc = "get_jedec_id"
    /\ \E ok \in BOOLEAN : \E rx \in (IF ok THEN rxs ELSE {Buf(<< >>, 6)}) :
        /\ sys' = Append(sys, Ioctl(JedecTx, rx, ok))
        /\ err' = IF XferFailed(ok) THEN Append(err, "get_jedec_id") ELSE err
        /\ id' = get_jedec_id(ok, rx)
    /\ i' = 0
    /\ pc' = "lookup"
    /\ UNCHANGED <<argv, optind, devname, pagesize, show_status, ret, status,
                   out>>

GetJedecId == GetJedecIdFrom(RxJedec)

\* A variant of LoopCond that runs over the whole array, sentinel included
LoopCond_WholeArray(k) == k < Len(chips)

\* A variant of NoChipFound that tests the first entry instead of entry i
NoChipFound_FirstEntry(k) == chips[1].name = NULL

\* The condition of the lookup loop
LoopCond(k) == chips[k + 1].name # NULL

\* The test after the lookup loop
NoChipFound(k) == chips[k + 1].name = NULL

\* One evaluation of the loop condition and, when it holds, one iteration
LookupStep ==
    /\ pc = "lookup"
    /\ IF LoopCond(i)
       THEN IF chips[i + 1].jedec_id = id
            THEN /\ out' = out \o << <<"Checking", chips[i + 1].name>>,
                                     <<"Found", chips[i + 1].name>> >>
                 /\ i' = i
                 /\ pc' = "after_lookup"
            ELSE /\ out' = Append(out, <<"Checking", chips[i + 1].name>>)
                 /\ i' = i + 1
                 /\ pc' = pc
       ELSE /\ pc' = "after_lookup"
            /\ UNCHANGED <<out, i>>
    /\ UNCHANGED <<argv, optind, devname, pagesize, show_status, ret, id,
                   status, sys, err>>

\* if (!chips[i].name): no supported chip
NoChip ==
    /\ pc = "after_lookup"
    /\ NoChipFound(i)
    /\ out' = Append(out, <<"No supported chips found", id>>)
    /\ pc' = "done"
    /\ UNCHANGED <<argv, optind, devname, pagesize, show_status, ret, id, i,
                   status, sys, err>>

\* A variant of AfterSetPageSz without the settling delay
AfterSetPageSz_NoDelay == "status"

\* Where main() goes after a page-size write that succeeded
AfterSetPageSz == "usleep"

\* if (pagesize): err = at45_set_page_sz(fd, pagesize)
SetPageSz ==
    /\ pc = "after_lookup"
    /\ ~NoChipFound(i)
    /\ pagesize # 0
    /\ \E ok \in BOOLEAN :
        /\ sys' = Append(sys, Ioctl(SetPageSzTx(pagesize), Buf(<< >>, 4), ok))
        /\ err' = IF XferFailed(ok) THEN Append(err, "at45_set_page_sz") ELSE err
        /\ IF at45_set_page_sz(ok)
           THEN /\ out' = Append(out, <<"Failed to set page size">>)
                /\ pc' = "done"
           ELSE /\ out' = out
                /\ pc' = AfterSetPageSz
    /\ UNCHANGED <<argv, optind, devname, pagesize, show_status, ret, id, i,
                   status>>

\* pagesize is 0: the page-size block is skipped
SkipPageSz ==
    /\ pc = "after_lookup"
    /\ ~NoChipFound(i)
    /\ pagesize = 0
    /\ pc' = "status"
    /\ UNCHANGED <<argv, optind, devname, pagesize, show_status, ret, id, i,
                   status, sys, out, err>>

\* usleep(SPI_CMD_DELAY)
Usleep ==
    /\ pc = "usleep"
    /\ sys' = Append(sys, <<"usleep", SPI_CMD_DELAY>>)
    /\ pc' = "status"
    /\ UNCHANGED <<argv, optind, devname, pagesize, show_status, ret, id, i,
                   status, out, err>>

\* if (show_status): status = at45_get_status(fd), with the received buffer
\* drawn from rxs; on success the "Status:" line and the initialisation of
\* the decoding loop
GetStatusFrom(rxs) ==
    /\ pc = "status"
    /\ show_status
    /\ \E ok \in BOOLEAN : \E rx \in (IF ok THEN rxs ELSE {Buf(<< >>, 3)}) :
        /\ sys' = Append(sys, Ioctl(StatusTx, rx, ok))
        /\ err' = IF XferFailed(ok) THEN Append(err, "at45_get_status") ELSE err
        /\ status' = at45_get_status(ok, rx)
        /\ IF status' < 0
           THEN /\ out' = Append(out, <<"Failed to get status">>)
                /\ pc' = "done"
                /\ i' = i
           ELSE /\ out' = Append(out, <<"Status", status'>>)
                /\ pc' = "bits"
                /\ i' = 15
    /\ UNCHANGED <<argv, optind, devname, pagesize, show_status, ret, id>>

GetStatus == GetStatusFrom(RxStatus)

\* show_status is false: ret = EXIT_SUCCESS
SkipStatus ==
    /\ pc = "status"
    /\ ~show_status
    /\ ret' = EXIT_SUCCESS
    /\ pc' = "done"
    /\ UNCHANGED <<argv, optind, devname, pagesize, show_status, id, i,
                   status, sys, out, err>>

\* One line of the decoded status
BitLine(st, n) == <<"bit", n, BitValue(st, n), status_bits[n + 1][BitValue(st, n) + 1]>>

\* One iteration of the decoding loop
PrintBit ==
    /\ pc = "bits"
    /\ i >= 0
    /\ out' = Append(out, BitLine(status, i))
    /\ i' = i - 1
    /\ UNCHANGED <<argv, optind, pc, devname, pagesize, show_status, ret, id,
                   status, sys, err>>

\* The decoding loop ends: ret = EXIT_SUCCESS
BitsDone ==
    /\ pc = "bits"
    /\ i < 0
    /\ ret' = EXIT_SUCCESS
    /\ pc' = "done"
    /\ UNCHANGED <<argv, optind, devname, pagesize, show_status, id, i,
                   status, sys, out, err>>

Next ==
    \/ GetoptEnd \/ OptD \/ OptP \/ OptS \/ OptH \/ OptDefault
    \/ OptTableOverrun
    \/ Open \/ GetJedecId \/ LookupStep \/ NoChip
    \/ SetPageSz \/ SkipPageSz \/ Usleep
    \/ GetStatus \/ SkipStatus \/ PrintBit \/ BitsDone

Spec == Init /\ [][Next]_vars

-----------------------------------------------------------------------------
(* The identification path alone, over every received buffer whose bytes   *)
(* come from ByteVals: no options on the command line.                     *)

ByteVals == {0, 1, 31, 36, 255}

RxJedecWide == { <<b0, b1, b2, b3, b4, b5>> : b0 \in ByteVals, b1 \in ByteVals,
                 b2 \in ByteVals, b3 \in ByteVals, b4 \in ByteVals, b5 \in ByteVals }

GetJedecIdWide == GetJedecIdFrom(RxJedecWide)

InitJedec == Init /\ argv = << >>

NextJedec ==
    \/ GetoptEnd \/ Open \/ GetJedecIdWide \/ LookupStep \/ NoChip \/ SkipPageSz

SpecJedec == InitJedec /\ [][NextJedec]_vars

-----------------------------------------------------------------------------
(* The status path alone, over every 16-bit status value: the command line *)
(* is -s and the chip is the supported one.                                *)

RxStatusAll == { <<0, lo, hi>> : lo \in 0..255, hi \in 0..255 }

GetStatusAll == GetStatusFrom(RxStatusAll)

GetJedecIdKnown == GetJedecIdFrom({ <<0, 31, 36, 0, 1, 0>> })

InitDecode == Init /\ argv = << [opt |-> "s", optarg |-> << >>] >>

NextDecode ==
    \/ GetoptEnd \/ OptS \/ Open \/ GetJedecIdKnown \/ LookupStep \/ SkipPageSz
    \/ GetStatusAll \/ PrintBit \/ BitsDone

SpecDecode == InitDecode /\ [][NextDecode]_vars

-----------------------------------------------------------------------------
(* Vocabulary of the properties *)

IsJedecXfer(e) == e[1] = "ioctl" /\ e[2][1] = JEDEC_ID_CMD
IsStatusXfer(e) == e[1] = "ioctl" /\ e[2][1] = AT45_STATUS_CMD
IsPageXfer(e) == e[1] = "ioctl" /\ e[2][1] = AT45_SET_PAGE_SZ[1]
IsUsleep(e) == e[1] = "usleep"
XferOk(e) == e[5]
XferRx(e) == e[4]

JedecXfers == { k \in DOMAIN sys : IsJedecXfer(sys[k]) }
StatusXfers == { k \in DOMAIN sys : IsStatusXfer(sys[k]) }
PageXfers == { k \in DOMAIN sys : IsPageXfer(sys[k]) }
FailedXfers == { k \in DOMAIN sys : sys[k][1] = "ioctl" /\ ~XferOk(sys[k]) }
Opens == { k \in DOMAIN sys : sys[k][1] = "open" }

\* IDs of the table entries that have a name
NamedIds == { chips[k].jedec_id : k \in { j \in DOMAIN chips : chips[j].name # NULL } }

OutLines(tag) == { k \in DOMAIN out : out[k][1] = tag }
LastOut == out[Len(out)]

\* The argument of the last -p option of the command line
LastPArg ==
    LET ps == { k \in DOMAIN argv : argv[k].opt = "p" }
    IN  argv[CHOOSE k \in ps : \A j \in ps : j <= k].optarg

\* The first option that ends the option loop, or "" when there is none
FirstStop ==
    LET st == { k \in DOMAIN argv : argv[k].opt \in {"h", "?", "long?"} }
    IN  IF st = {} THEN "" ELSE argv[CHOOSE k \in st : \A j \in st : k <= j].opt

HelpShown == FirstStop = "h"
Unrecognized == FirstStop \in {"?", "long?"}
Terminated == pc \in {"done", "killed"}
ExitsZero == pc = "done" /\ ret = 0

-----------------------------------------------------------------------------
(* Properties *)

\* C1: a page-size or status transfer is issued only after get_jedec_id
\* returned the ID of a named table entry; when the returned ID matches no
\* named entry the run ends with the "No supported chips found" line carrying
\* the raw ID, with no transfer after the JEDEC one, and with a failure code.
C1_FailClosed ==
    /\ \A k \in PageXfers \cup StatusXfers :
          /\ \E j \in JedecXfers : j < k
          /\ id \in NamedIds
    /\ (JedecXfers # {} /\ id \notin NamedIds /\ pc = "done") =>
          /\ LastOut = <<"No supported chips found", id>>
          /\ \A j \in JedecXfers : j = Len(sys)
          /\ ret # EXIT_SUCCESS

C1_Witness ==
    /\ pc = "done"
    /\ Given("p") /\ Given("s")
    /\ \E j \in JedecXfers : XferOk(sys[j]) /\ XferRx(sys[j]) = <<0, 31, 36, 0, 0, 0>>
    /\ id = U32(0, 9247)
    /\ LastOut = <<"No supported chips found", id>>

\* C2: at45_set_page_sz is called only when -p was given, at most once, and
\* with the mode of the last -p option.
C2_PageSizeOnlyOnRequest ==
    /\ PageXfers # {} => Given("p")
    /\ Cardinality(PageXfers) <= 1
    /\ \A k \in PageXfers :
          sys[k][2][4] = IF LastPArg = <<50, 53, 54>> THEN 166 ELSE 167

C2_Witness ==
    /\ Len(argv) = 2
    /\ argv[1] = [opt |-> "p", optarg |-> <<50, 53, 54>>]
    /\ argv[2] = [opt |-> "p", optarg |-> <<50, 54, 52>>]
    /\ \E k \in PageXfers : sys[k][2][4] = 167

\* C3: a failed ioctl is the last system call of the run (no later transfer,
\* no settling delay); a failed status read prints neither the status value
\* nor a decoded line; the run ends with a failure code.
C3_TransportFailureTerminal ==
    /\ \A k \in FailedXfers : k = Len(sys)
    /\ (\E k \in FailedXfers : IsStatusXfer(sys[k])) =>
          OutLines("Status") = {} /\ OutLines("bit") = {}
    /\ FailedXfers # {} => pc \in {"lookup", "after_lookup", "done"}
    /\ (FailedXfers # {} /\ pc = "done") => ret = EXIT_FAILURE

C3_Witness ==
    /\ pc = "done"
    /\ Given("s")
    /\ \E k \in FailedXfers : IsPageXfer(sys[k])
    /\ LastOut = <<"Failed to set page size">>

\* C4: between a page-size write that succeeded and a later status read
\* lies the settling delay, and the status read never precedes the write.
C4_SettlingDelayOrdering ==
    \A k \in PageXfers : \A m \in StatusXfers :
        /\ k < m
        /\ XferOk(sys[k]) =>
              /\ IsUsleep(sys[k + 1]) /\ sys[k + 1][2] = 100000
              /\ k + 1 < m

C4_Witness ==
    /\ pc = "bits"
    /\ \E k \in PageXfers : \E m \in StatusXfers : XferOk(sys[k]) /\ XferOk(sys[m])

\* C5: without -s no status transfer is issued and no status output is
\* printed; with no option at all and a matching ID the run makes the
\* identification transfer only and ends with code 0.
C5_StatusOptIn ==
    ~Given("s") =>
        /\ StatusXfers = {}
        /\ OutLines("Status") = {} /\ OutLines("bit") = {}
        /\ OutLines("Failed to get status") = {}
        /\ (argv = << >> /\ pc = "done" /\ id \in NamedIds /\ JedecXfers # {}) =>
              /\ \A k \in DOMAIN sys : sys[k][1] = "ioctl" => k \in JedecXfers
              /\ ret = 0

\* C6: the page-size transfer sends the 4 bytes 0x3D 0x2A 0x80 mode, with
\* length 4, and mode is 0xA6 exactly when the -p argument is "256" and
\* 0xA7 otherwise.
C6_PageSizeFrame ==
    \A k \in PageXfers :
        /\ Len(sys[k][2]) = 4
        /\ sys[k][3] = 4
        /\ SubSeq(sys[k][2], 1, 3) = <<61, 42, 128>>
        /\ sys[k][2][4] \in {166, 167}
        /\ sys[k][2][4] = 166 <=> LastPArg = <<50, 53, 54>>

C6_Witness ==
    /\ Given("p")
    /\ LastPArg = <<50, 53, 54, 48>>
    /\ \E k \in PageXfers : sys[k][2] = <<61, 42, 128, 167>>

\* Every step the command line asks for was made and succeeded.
RequestedStepsDone ==
    /\ FirstStop = ""
    /\ \E k \in Opens : sys[k][3]
    /\ \E k \in JedecXfers : XferOk(sys[k])
    /\ id \in NamedIds
    /\ Given("p") => \E k \in PageXfers : XferOk(sys[k])
    /\ Given("s") => (\E k \in StatusXfers : XferOk(sys[k]))
                        /\ Cardinality(OutLines("bit")) = 16

\* C7: the exit code is 0 exactly when help was displayed or every requested
\* step completed successfully; on help or an unrecognized option the device
\* is never opened and no transfer is issued.
C7_ExitCode ==
    Terminated =>
        /\ ExitsZero <=> (HelpShown \/ RequestedStepsDone)
        /\ (HelpShown \/ Unrecognized) => sys = << >>

\* C8: a successful get_jedec_id returns received bytes 1..4, least
\* significant first, whatever bytes 0 and 5 are; the bytes 1F 24 00 01 give
\* 0x0100241F, which the lookup reports as "Adesto AT45DB041E".
C8_JedecIdValue ==
    \A k \in JedecXfers : XferOk(sys[k]) =>
        LET rx == XferRx(sys[k]) IN
        /\ id.lo = rx[2] + 256 * rx[3]
        /\ id.hi = rx[4] + 256 * rx[5]
        /\ SubSeq(rx, 2, 5) = <<31, 36, 0, 1>> =>
              /\ id = [hi |-> 256, lo |-> 9247]
              /\ pc \notin {"get_jedec_id", "lookup"} =>
                    /\ \E n \in DOMAIN out : out[n] = <<"Found", "Adesto AT45DB041E">>
                    /\ OutLines("No supported chips found") = {}

C8_Witness ==
    /\ pc = "status"
    /\ \E k \in JedecXfers : XferOk(sys[k]) /\ XferRx(sys[k]) = <<255, 31, 36, 0, 1, 255>>
    /\ LastOut = <<"Found", "Adesto AT45DB041E">>

\* The sequence of decoded lines printed so far
BitLines == SelectSeq(out, LAMBDA l : l[1] = "bit")

RECURSIVE SumBits(_, _)
SumBits(ls, k) ==
    IF k > Len(ls) THEN 0 ELSE ls[k][3] * 2 ^ ls[k][2] + SumBits(ls, k + 1)

\* C9: the status report has one decoded line per bit position, from 15 down
\* to 0; the line of position n carries the value of bit n of the status and
\* the descriptor of that position and value.
C9_StatusDecode ==
    /\ \A k \in DOMAIN BitLines :
          /\ BitLines[k][2] = 16 - k
          /\ BitLines[k][3] \in {0, 1}
          /\ BitLines[k][4] = status_bits[17 - k][BitLines[k][3] + 1]
    /\ (pc = "done" /\ OutLines("Status") # {}) =>
          /\ Len(BitLines) = 16
          /\ SumBits(BitLines, 1) = status
          /\ \E k \in DOMAIN out : out[k] = <<"Status", status>>
                                      /\ \A n \in OutLines("bit") : n > k
          /\ \E m \in StatusXfers :
                status = XferRx(sys[m])[2] + 256 * XferRx(sys[m])[3]

C9_Witness ==
    /\ pc = "done"
    /\ status = 42405
    /\ Len(BitLines) = 16
    /\ BitLines[1] = <<"bit", 15, 1, "Device is ready">>
    /\ BitLines[11] = <<"bit", 5, 1, "Unknown density">>
    /\ BitLines[15] = <<"bit", 1, 0, "Sector protection is disabled">>

\* C10: the end-of-table entry never matches: with the ID 0x00000000, and
\* with the failure value 0xFFFFFFFF, the loop ends on the sentinel, no chip
\* is reported found, and the run ends on the "No supported chips found"
\* path with no page-size write and no status read.
C10_SentinelNeverMatches ==
    (JedecXfers # {} /\ id \in { [hi |-> 0, lo |-> 0], [hi |-> 65535, lo |-> 65535] }) =>
        /\ OutLines("Found") = {}
        /\ \A k \in OutLines("Checking") : out[k][2] # NULL
        /\ PageXfers = {} /\ StatusXfers = {}
        /\ pc \in {"lookup", "after_lookup", "done"}
        /\ pc \in {"after_lookup", "done"} => chips[i + 1].name = NULL
        /\ pc = "done" => /\ LastOut = <<"No supported chips found", id>>
                          /\ ret = EXIT_FAILURE

C10_Witness ==
    /\ pc = "done"
    /\ Given("p") /\ Given("s")
    /\ \E k \in JedecXfers : XferOk(sys[k])
    /\ id = [hi |-> 0, lo |-> 0]
    /\ LastOut = <<"No supported chips found", id>>

====
